---- MODULE Spec2Model ----
(***************************************************************************)
(* Arista transcoder: the pass state machine of arista/transcoder.py       *)
(* (Transcoder.on_got_info, _setup_pass, _build_pipeline, _on_message,     *)
(* start, pause, stop, get_status) together with Preset.pass_count and the *)
(* pass-string helpers of arista/presets.py (Spec); the frame geometry of  *)
(* _setup_pass (GeoSpec); expand_capacity and merge_range_and_tuple of     *)
(* arista/utils.py with the encoder limits of _setup_pass (CapSpec).       *)
(*                                                                         *)
(* The GStreamer pipeline is the environment.  What the model takes from   *)
(* it: Gst.parse_launch either returns a pipeline (in state NULL) or       *)
(* raises GLib.GError; Gst.ElementFactory.make returns None for an element *)
(* that is not installed; a PLAYING pipeline advances its position and     *)
(* posts one EOS, or an ERROR, on its bus; a pipeline set to NULL flushes  *)
(* its bus (GstPipeline auto-flush-bus) and drops what is posted to it,    *)
(* and can be set PLAYING again, which runs it from the start.             *)
(***************************************************************************)
EXTENDS Integers, Sequences, FiniteSets, TLC

\* ---------------------------------------------------------------- bounds
MaxPasses == 2      \* passes per codec: 1..MaxPasses
MaxEmit == 8        \* notifications recorded per behaviour
MaxBus == 2         \* messages waiting on the pipeline's bus
MaxPos == 1         \* stream positions 0..MaxPos (MaxPos is the duration)
MaxTime == 6        \* clock values 0..MaxTime
MaxErrors == 1      \* ERROR messages the engine posts per behaviour

\* ------------------------------------------------------ program constants
StallSeconds == 5   \* get_status: time.time() - _percent_cached_time > 5

VARIABLES
    info,                  \* self.info: None or the discovered media
    preset,                \* self.options.preset (a mutable, shared object)
    installed,             \* element names Gst.ElementFactory.make can build
    enc_pass,              \* self.enc_pass
    pipe,                  \* self.pipe: None or the pipeline of one pass
    pstate,                \* the Gst.State of self.pipe
    bus,                   \* messages waiting on self.pipe's bus
    engine,                \* the pipeline's run: "ready", "done", "failed"
    pos,                   \* the pipeline's stream position
    now,                   \* time.time()
    start_time,            \* self.start_time (NoTime: attribute not set)
    percent_cached,        \* self._percent_cached (numerator over duration)
    percent_cached_time,   \* self._percent_cached_time
    npipes,                \* pipelines built so far by _build_pipeline
    emitted,               \* the notifications emitted, in order
    geo,                   \* one run of _setup_pass's frame geometry (GeoSpec)
    cap,                   \* one run of the capability helpers (CapSpec)
    pstr,                  \* one run of the pass-string helpers (PassSpec)
    mux,                   \* one run of the container choice (MuxSpec)
    jobs,                  \* two jobs given one preset object (SharedSpec)
    dvd                    \* the DVD title search of __init__ (DvdSpec)

vars == <<info, preset, installed, enc_pass, pipe, pstate, bus, engine, pos,
          now, start_time, percent_cached, percent_cached_time,
          npipes, emitted, geo, cap, pstr, mux, jobs, dvd>>

\* Python's None (a record, so that it compares with the records it stands in for)
None == [none |-> TRUE]
NoTime == -1

Max2(a, b) == IF a >= b THEN a ELSE b

\* ------------------------------------------------------- discoverer.py
is_video(i) == i.video
is_audio(i) == i.audio

\* ---------------------------------------------------------- presets.py
\* A pass string is a sequence of key=value tokens, each a <<key, value>>.
Keys(d) == {d[i][1] : i \in 1..Len(d)}

\* parse_pass: an OrderedDict keeps a key at its first position and takes
\* the value of its last occurrence.
RECURSIVE parse_pass(_)
parse_pass(pas) ==
    IF pas = <<>> THEN <<>>
    ELSE LET n == Len(pas)
             d == parse_pass(SubSeq(pas, 1, n - 1))
             p == pas[n]
         IN  IF p[1] \in Keys(d)
             THEN [i \in 1..Len(d) |-> IF d[i][1] = p[1] THEN p ELSE d[i]]
             ELSE Append(d, p)

make_pass_from_dict(d) == d

DelKey(d, key) == SelectSeq(d, LAMBDA t : t[1] # key)

\* Mutant: "return out" indented into the loop, so only the first pass is kept.
remove_param_from_passes_FirstOnly(passes, key) ==
    [i \in 1..(IF Len(passes) > 0 THEN 1 ELSE 0) |->
        make_pass_from_dict(DelKey(parse_pass(passes[i]), key))]

remove_param_from_passes(passes, key) ==
    [i \in 1..Len(passes) |-> make_pass_from_dict(DelKey(parse_pass(passes[i]), key))]

\* Mutant: the audio passes are left out of the count.
pass_count_VideoOnly(pre) == Len(pre.vcodec.passes)

pass_count(pre) == Max2(Len(pre.vcodec.passes), Len(pre.acodec.passes))

\* ------------------------------------------------------ the job's inputs
VPass == << <<"pass", "x">>, <<"threads", "t">> >>
APass == << <<"profile", "2">>, <<"bitrate", "128">> >>

Presets ==
    { [vcodec |-> [name |-> "x264enc", passes |-> [i \in 1..vl |-> VPass]],
       acodec |-> [name |-> an, container |-> "", passes |-> [i \in 1..al |-> APass]]]
      : vl \in 1..MaxPasses, al \in 1..MaxPasses, an \in {"faac", "lamemp3enc"} }

Elements == {"x264enc", "faac", "avenc_aac", "lamemp3enc"}

\* The installations that differ for a preset: an element the preset's
\* audio codec never asks for is taken as installed, and avenc_aac is only
\* asked for when faac is missing.
Installs(pre) ==
    { s \in SUBSET Elements :
        IF pre.acodec.name = "faac"
        THEN "lamemp3enc" \in s /\ ("faac" \in s => "avenc_aac" \in s)
        ELSE "faac" \in s /\ "avenc_aac" \in s }

\* duration 0: the discoverer reports no duration (the duration of an
\* input without streams is never read).
Infos ==
    { i \in [video : BOOLEAN, audio : BOOLEAN, duration : {0, MaxPos}] :
        (i.video \/ i.audio) \/ i.duration = 0 }

Emit(sig, arg, p) == [sig |-> sig, arg |-> arg, pass |-> p]
CanEmit(n) == Len(emitted) + n <= MaxEmit

\* ERROR messages posted so far: those handled and those still on the bus.
ErrorsPosted ==
    Cardinality({i \in 1..Len(emitted) : emitted[i].sig = "message" /\ emitted[i].arg = "ERROR"})
    + Cardinality({i \in 1..Len(bus) : bus[i] = "ERROR"})

\* ------------------------------------------- transcoder.py: _setup_pass
\* Gst.ElementFactory.make(name, ...): None when the element is missing.
Make(name) == name \in installed

\* Lines 518-523: the substitution made when faac cannot be instantiated.
AacFallback(ac) ==
    [ac EXCEPT !.name = "avenc_aac",
               !.container = "mp4mux",
               !.passes = remove_param_from_passes(
                   [ac.passes EXCEPT ![1] = Append(@, <<"compliance", "experimental">>)],
                   "profile")]

\* Whether the audio branch is built in pass ep (line 509-510).
AudioInPass(ep, inf, pre) ==
    is_audio(inf) /\ ep = Len(pre.vcodec.passes) - 1

\* _setup_pass followed by _build_pipeline for pass ep.  parse_ok: whether
\* Gst.parse_launch accepts the command.  The result names how the call
\* ends ("ok" or the exception raised), the preset as the call leaves it,
\* and the branches of the pipeline built.
_setup_pass(ep, inf, pre, parse_ok) ==
    LET hasV   == is_video(inf)
        vNone  == hasV /\ ~Make(pre.vcodec.name)
        vIndex == hasV /\ ~(ep < Len(pre.vcodec.passes))
        hasA   == AudioInPass(ep, inf, pre)
        fallb  == hasA /\ ~Make(pre.acodec.name) /\ pre.acodec.name = "faac"
        pre2   == IF fallb THEN [pre EXCEPT !.acodec = AacFallback(@)] ELSE pre
        aNone  == hasA /\ ~Make(pre2.acodec.name)
        aIndex == hasA /\ ~(Len(pre.vcodec.passes) - ep - 1 < Len(pre2.acodec.passes))
        out(res, p) == [result |-> res, preset |-> p, video |-> hasV, audio |-> hasA]
    IN  IF vNone THEN out("AttributeError", pre)
        ELSE IF vIndex THEN out("IndexError", pre)
        ELSE IF aNone THEN out("AttributeError", pre2)
        ELSE IF aIndex THEN out("IndexError", pre2)
        ELSE IF ~parse_ok THEN out("PipelineException", pre2)
        ELSE out("ok", pre2)

\* The pipeline object _build_pipeline stores in self.pipe.
NewPipe(ep, r) == [id |-> npipes + 1, pass |-> ep, video |-> r.video, audio |-> r.audio]

\* ------------------------------------------------------------------ Init
Init ==
    /\ info = None
    /\ preset \in Presets
    /\ installed \in Installs(preset)
    /\ enc_pass = 0
    /\ pipe = None
    /\ pstate = "NULL"
    /\ bus = <<>>
    /\ engine = "ready"
    /\ pos = 0
    /\ now = 0
    /\ start_time = NoTime
    /\ percent_cached = 0
    /\ percent_cached_time = 0
    /\ npipes = 0
    /\ emitted = <<>>
    /\ geo = None
    /\ cap = None
    /\ pstr = None
    /\ mux = None
    /\ jobs = None
    /\ dvd = None

\* ----------------------------------------------------------- on_got_info
\* The discoverer's callback: lines 730-743.
on_got_info ==
    \E inf \in Infos, parse_ok \in BOOLEAN :
      /\ info = None
      /\ CanEmit(2)
      /\ info' = inf
      /\ LET r  == _setup_pass(enc_pass, inf, preset, parse_ok)
             e1 == Append(emitted, Emit("discovered", "", enc_pass))
         IN  IF ~(is_video(inf) \/ is_audio(inf))
             THEN /\ emitted' = e1
                  /\ UNCHANGED <<preset, pipe, pstate, bus, engine, pos, start_time, npipes>>
             ELSE IF r.result = "ok"
             THEN /\ preset' = r.preset
                  /\ pipe' = NewPipe(enc_pass, r)
                  /\ npipes' = npipes + 1
                  /\ emitted' = Append(e1, Emit("pass-setup", "", enc_pass))
                  /\ pstate' = "PLAYING"
                  /\ start_time' = now
                  /\ bus' = <<>>
                  /\ engine' = "ready"
                  /\ pos' = 0
             ELSE /\ preset' = r.preset
                  /\ emitted' = IF r.result = "PipelineException"
                                THEN Append(e1, Emit("error", r.result, enc_pass))
                                ELSE e1
                  /\ UNCHANGED <<pipe, pstate, bus, engine, pos, start_time, npipes>>
      /\ UNCHANGED <<geo, cap, pstr, mux, jobs, dvd, installed, enc_pass, now, percent_cached, percent_cached_time>>

\* ------------------------------------------------------------ _on_message
\* What waits for the handler once self.state = Gst.State.NULL has run
\* (lines 611, 648): the pipeline flushes its bus on the way to NULL.
\* Mutant: the messages behind the handled one survive and are delivered.
BusAfterNull_Kept(b) == IF b = <<>> THEN b ELSE Tail(b)

BusAfterNull(b) == <<>>

\* Line 619: whether another pass follows pass ep.
\* Mutant: off by one, the last pass is taken to have a successor.
MorePasses_OffByOne(ep, pre) == ep < pass_count(pre)

MorePasses(ep, pre) == ep < pass_count(pre) - 1

\* The bus watch's callback, for the message at the head of the bus:
\* lines 605-628.  An exception raised by _setup_pass leaves the handler
\* at that point: nothing after line 621 runs.
_on_message ==
    \E parse_ok \in BOOLEAN :
      /\ bus # <<>>
      /\ CanEmit(3)
      /\ LET t  == Head(bus)
             e1 == Append(emitted, Emit("pass-complete", "", enc_pass))
             r  == _setup_pass(enc_pass + 1, info, preset, parse_ok)
         IN  IF t = "EOS"
             THEN \* self.state = Gst.State.NULL
                  IF MorePasses(enc_pass, preset)
                  THEN /\ enc_pass' = enc_pass + 1
                       /\ preset' = r.preset
                       /\ IF r.result = "ok"
                          THEN /\ pipe' = NewPipe(enc_pass + 1, r)
                               /\ npipes' = npipes + 1
                               /\ pstate' = "PLAYING"
                               /\ start_time' = now
                               /\ emitted' = e1 \o << Emit("pass-setup", "", enc_pass + 1),
                                                      Emit("message", t, enc_pass + 1) >>
                          ELSE /\ pstate' = "NULL"
                               /\ emitted' = e1
                               /\ UNCHANGED <<pipe, npipes, start_time>>
                       /\ bus' = BusAfterNull(bus)
                       /\ engine' = "ready"
                       /\ pos' = 0
                  ELSE /\ pstate' = "NULL"
                       /\ bus' = BusAfterNull(bus)
                       /\ engine' = "ready"
                       /\ pos' = 0
                       /\ emitted' = e1 \o << Emit("complete", "", enc_pass),
                                              Emit("message", t, enc_pass) >>
                       /\ UNCHANGED <<enc_pass, preset, pipe, npipes, start_time>>
             ELSE \* Gst.MessageType.ERROR: print(message.parse_error())
                  /\ bus' = Tail(bus)
                  /\ emitted' = Append(emitted, Emit("message", t, enc_pass))
                  /\ UNCHANGED <<enc_pass, preset, pipe, npipes, start_time, pstate, engine, pos>>
      /\ UNCHANGED <<geo, cap, pstr, mux, jobs, dvd, info, installed, now, percent_cached, percent_cached_time>>

\* ------------------------------------------------- start / pause / stop
\* set_state (lines 662-670) does nothing while self.pipe is None.
start ==
    \E reset_timer \in BOOLEAN :
      /\ pstate' = IF pipe # None THEN "PLAYING" ELSE pstate
      /\ start_time' = IF reset_timer THEN now ELSE start_time
      /\ UNCHANGED <<geo, cap, pstr, mux, jobs, dvd, info, preset, installed, enc_pass, pipe, bus, engine, pos, now,
                     percent_cached, percent_cached_time, npipes, emitted>>

pause ==
    /\ pstate' = IF pipe # None THEN "PAUSED" ELSE pstate
    /\ UNCHANGED <<geo, cap, pstr, mux, jobs, dvd, info, preset, installed, enc_pass, pipe, bus, engine, pos, now,
                   start_time, percent_cached, percent_cached_time,
                   npipes, emitted>>

stop ==
    /\ pstate' = "NULL"
    /\ bus' = BusAfterNull(bus)
    /\ engine' = "ready"
    /\ pos' = 0
    /\ UNCHANGED <<geo, cap, pstr, mux, jobs, dvd, info, preset, installed, enc_pass, pipe, now, start_time,
                   percent_cached, percent_cached_time, npipes, emitted>>

\* -------------------------------------------------------------- get_status
\* Lines 674-726.  query_ok: whether pipe.query_position reports success; a
\* pipeline in state NULL answers no position query.
get_status_result(query_ok) ==
    IF info = None THEN "AttributeError"
    ELSE IF info.duration <= 0 THEN "unknown"
    ELSE IF pipe = None THEN "TranscoderStatusException: No pipeline to query!"
    ELSE IF ~(query_ok /\ pstate # "NULL")
         THEN "TranscoderStatusException: Can't query position!"
    ELSE IF pos <= 0 THEN "unknown"
    ELSE "percent"

\* Before discovery self.info is None and the call ends in AttributeError
\* at line 689 with nothing changed.
get_status ==
    \E query_ok \in BOOLEAN :
      /\ LET percent == pos      \* pos / duration, duration fixed for the job
             stalled == percent_cached = percent
                        /\ now - percent_cached_time > StallSeconds
         IN  IF get_status_result(query_ok) = "percent"
             THEN /\ bus' = IF stalled /\ Len(bus) < MaxBus THEN Append(bus, "EOS") ELSE bus
                  /\ percent_cached' = percent
                  /\ percent_cached_time' = IF percent_cached # percent THEN now
                                            ELSE percent_cached_time
             ELSE UNCHANGED <<bus, percent_cached, percent_cached_time>>
      /\ UNCHANGED <<geo, cap, pstr, mux, jobs, dvd, info, preset, installed, enc_pass, pipe, pstate, engine, pos, now,
                     start_time, npipes, emitted>>

\* ------------------------------------------------------------ the engine
\* The running pipeline moves on in the stream.
EngineProgress ==
    /\ pipe # None /\ pstate = "PLAYING" /\ engine = "ready"
    /\ pos < MaxPos
    /\ pos' = pos + 1
    /\ UNCHANGED <<geo, cap, pstr, mux, jobs, dvd, info, preset, installed, enc_pass, pipe, pstate, bus, engine, now,
                   start_time, percent_cached, percent_cached_time,
                   npipes, emitted>>

\* The running pipeline reaches the end of the stream and posts EOS.
EngineEOS ==
    /\ pipe # None /\ pstate = "PLAYING" /\ engine = "ready"
    /\ Len(bus) < MaxBus
    /\ bus' = Append(bus, "EOS")
    /\ engine' = "done"
    /\ UNCHANGED <<geo, cap, pstr, mux, jobs, dvd, info, preset, installed, enc_pass, pipe, pstate, pos, now,
                   start_time, percent_cached, percent_cached_time,
                   npipes, emitted>>

\* An element of the running pipeline fails and posts ERROR.
EngineError ==
    /\ pipe # None /\ pstate = "PLAYING" /\ engine = "ready"
    /\ Len(bus) < MaxBus
    /\ ErrorsPosted < MaxErrors
    /\ bus' = Append(bus, "ERROR")
    /\ engine' = "failed"
    /\ UNCHANGED <<geo, cap, pstr, mux, jobs, dvd, info, preset, installed, enc_pass, pipe, pstate, pos, now,
                   start_time, percent_cached, percent_cached_time,
                   npipes, emitted>>

\* time.time() moves on.
Tick ==
    \E d \in {StallSeconds + 1} :
      /\ now + d <= MaxTime
      /\ now' = now + d
      /\ UNCHANGED <<geo, cap, pstr, mux, jobs, dvd, info, preset, installed, enc_pass, pipe, pstate, bus, engine, pos,
                     start_time, percent_cached, percent_cached_time,
                     npipes, emitted>>

Next ==
    \/ on_got_info
    \/ _on_message
    \/ start
    \/ pause
    \/ stop
    \/ get_status
    \/ EngineProgress
    \/ EngineEOS
    \/ EngineError
    \/ Tick

Spec == Init /\ [][Next]_vars

\* ======================================================================
\* Properties
\* ======================================================================
Sigs(log) == [i \in 1..Len(log) |-> log[i].sig]
CountSig(log, sig) == Cardinality({i \in 1..Len(log) : log[i].sig = sig})
Emitted(sig) == \E i \in 1..Len(emitted) : emitted[i].sig = sig
\* What the step appended to the log.
NewSigs == Sigs(SubSeq(emitted', Len(emitted) + 1, Len(emitted')))

\* The step is _on_message handling an end-of-stream message: no other
\* step emits while an EOS is at the head of the bus.
EosHandled == bus # <<>> /\ Head(bus) = "EOS" /\ emitted' # emitted

TotalPasses == Max2(Len(preset.vcodec.passes), Len(preset.acodec.passes))

\* C1 (as claimed): every end-of-stream handled while enc_pass <
\* pass_count - 1 emits pass-complete, adds exactly 1 to enc_pass, builds a
\* new pipeline for the new pass, emits pass-setup, sets the pipeline
\* playing, and does not emit complete.
C1_EosAdvancesAndRestarts ==
    [][(EosHandled /\ enc_pass < TotalPasses - 1) =>
          /\ enc_pass' = enc_pass + 1
          /\ npipes' = npipes + 1
          /\ pipe' # None /\ pipe'.pass = enc_pass'
          /\ pstate' = "PLAYING"
          /\ Len(NewSigs) >= 2
          /\ NewSigs[1] = "pass-complete" /\ NewSigs[2] = "pass-setup"
          /\ CountSig(emitted', "complete") = CountSig(emitted, "complete")]_vars

\* C2: every end-of-stream handled while enc_pass = pass_count - 1 emits
\* pass-complete and then complete, emits no pass-setup, builds no
\* pipeline and leaves enc_pass as it is.
C2_FinalEosCompletes ==
    [][(EosHandled /\ enc_pass = TotalPasses - 1) =>
          /\ Len(NewSigs) >= 2
          /\ NewSigs[1] = "pass-complete" /\ NewSigs[2] = "complete"
          /\ CountSig(emitted', "pass-setup") = CountSig(emitted, "pass-setup")
          /\ CountSig(emitted', "pass-complete") = CountSig(emitted, "pass-complete") + 1
          /\ npipes' = npipes
          /\ pipe' = pipe
          /\ enc_pass' = enc_pass]_vars

\* C2 witness: the last pass of a two-pass job has ended and complete was
\* emitted right after its pass-complete.
C2_Witness ==
    /\ TotalPasses = 2 /\ enc_pass = 1
    /\ \E i \in 1..Len(emitted) - 1 :
         emitted[i].sig = "pass-complete" /\ emitted[i + 1].sig = "complete"

\* C3 (as claimed): once complete has been emitted no step emits another
\* pass-setup, pass-complete or complete.
C3_CompleteIsTerminal ==
    [][Emitted("complete") =>
          /\ CountSig(emitted', "pass-setup") = CountSig(emitted, "pass-setup")
          /\ CountSig(emitted', "pass-complete") = CountSig(emitted, "pass-complete")
          /\ CountSig(emitted', "complete") = CountSig(emitted, "complete")]_vars

\* C4: the first complete comes after exactly pass_count pass-complete
\* emissions, and the k-th of these was emitted in pass k - 1.
PassCompletes == SelectSeq(emitted, LAMBDA e : e.sig = "pass-complete")
FirstComplete == CHOOSE i \in 1..Len(emitted) :
                    /\ emitted[i].sig = "complete"
                    /\ \A j \in 1..(i - 1) : emitted[j].sig # "complete"
C4_CompleteAfterEveryPass ==
    /\ \A k \in 1..Len(PassCompletes) :
          k <= TotalPasses => PassCompletes[k].pass = k - 1
    /\ Emitted("complete") =>
          CountSig(SubSeq(emitted, 1, FirstComplete), "pass-complete") = TotalPasses

\* C4 witness: vcodec.passes of length 2, acodec.passes of length 1, and
\* complete emitted after two pass-complete emissions.
C4_Witness ==
    /\ Len(preset.vcodec.passes) = 2 /\ Len(preset.acodec.passes) = 1
    /\ Emitted("complete")
    /\ CountSig(emitted, "pass-complete") = 2

\* C5: over every step the pass count the state machine compares enc_pass
\* with is the maximum of the two passes lengths and does not change.
C5_PassCountFixed ==
    [][/\ pass_count(preset) = TotalPasses
       /\ pass_count(preset') = pass_count(preset)]_vars

\* C5 witness: the AAC fallback has rewritten the audio passes of a job
\* whose audio passes outnumber its video passes, and an end-of-stream has
\* been handled since.
C5_Witness ==
    /\ preset.acodec.name = "avenc_aac"
    /\ Len(preset.acodec.passes) > Len(preset.vcodec.passes)
    /\ Emitted("pass-complete")

\* C6 (as claimed): with audio in the input, the pipeline built for pass p
\* has the audio branch exactly when p >= total_passes - len(acodec.passes).
C6_AudioInFinalPasses ==
    (pipe # None /\ is_audio(info)) =>
        (pipe.audio <=> pipe.pass >= TotalPasses - Len(preset.acodec.passes))

\* C7 (as claimed): once an ERROR message of the engine has been handled,
\* an error notification has been emitted.
C7_EngineErrorSurfaced ==
    (\E i \in 1..Len(emitted) : emitted[i].sig = "message" /\ emitted[i].arg = "ERROR")
        => Emitted("error")

\* The step ran _setup_pass (from on_got_info or from the end-of-stream
\* handler) and no pipeline came out of it.
SetupFailed ==
    /\ \/ enc_pass' = enc_pass + 1
       \/ info = None /\ info' # None /\ (is_video(info') \/ is_audio(info'))
    /\ npipes' = npipes

\* C8 (as claimed): every failure of _setup_pass emits exactly one error
\* notification and the pass is not started.
C8_SetupFailureReportedOnce ==
    [][SetupFailed =>
          /\ CountSig(emitted', "error") = CountSig(emitted, "error") + 1
          /\ pstate' # "PLAYING"]_vars

\* C9 (as claimed): after discovery of an input with neither video nor
\* audio no pipeline is built, no pass-setup is emitted and an error
\* notification has been emitted.
C9_NoStreamsIsAnError ==
    (info # None /\ ~is_video(info) /\ ~is_audio(info)) =>
        /\ pipe = None
        /\ ~Emitted("pass-setup")
        /\ Emitted("error")

\* C10 (as claimed): a step that advances enc_pass leaves start_time as it
\* was set before.
C10_StartTimeKeptOnPassAdvance ==
    [][(enc_pass' = enc_pass + 1 /\ start_time # NoTime) =>
          start_time' = start_time]_vars

\* End-of-stream messages waiting on the bus.
CountEos(b) == Cardinality({i \in 1..Len(b) : b[i] = "EOS"})

\* An end-of-stream that get_status posted is waiting: the engine itself
\* has posted none (engine = "done" after its own).
StallEosWaiting == CountEos(bus) >= 1 /\ engine # "done"

\* C11 (as claimed): once stall detection has posted its end-of-stream, a
\* step that leaves the pipeline, its run and the fraction as they are (a
\* further status query returning the same fraction) posts no second one.
C11_OneEosPerStall ==
    [][(StallEosWaiting /\ pipe' = pipe /\ engine' = engine /\ pos' = pos
          /\ percent_cached = pos /\ now' = now)
          => CountEos(bus') <= CountEos(bus)]_vars

StatusFails(r) == r \in {"TranscoderStatusException: No pipeline to query!",
                         "TranscoderStatusException: Can't query position!"}

\* C13 (as claimed): a status query fails with TranscoderStatusException
\* whenever the duration is unknown or not positive, no pipeline is active
\* or the position query reports failure.
C13_StatusFailsWithException ==
    \A query_ok \in BOOLEAN :
        (\/ info = None
         \/ info # None /\ info.duration <= 0
         \/ pipe = None
         \/ ~query_ok)
            => StatusFails(get_status_result(query_ok))

\* C14 (as claimed): a start() of the pipeline of the current pass that
\* stop() has set to NULL (the job has not completed) runs pass 0: enc_pass
\* is 0 and the pipeline is the one built for pass 0.
C14_RestartFromPassZero ==
    [][(/\ pipe # None /\ pipe.pass = enc_pass /\ ~Emitted("complete")
        /\ pstate = "NULL" /\ pstate' = "PLAYING" /\ pipe' = pipe)
          => (enc_pass' = 0 /\ pipe'.pass = 0)]_vars

\* ======================================================================
\* Frame geometry of _setup_pass (transcoder.py lines 387-451), as a
\* function of the source size, the crop, the pixel aspect ratio and the
\* preset's width and height bounds.
\* ======================================================================
MaxSide == 6        \* small source sizes: 1..MaxSide on each side

Abs(n) == IF n < 0 THEN -n ELSE n

\* int(n / d) of Python: the quotient truncated towards zero.
TruncDiv(n, d) ==
    IF (n >= 0) = (d > 0) THEN Abs(n) \div Abs(d) ELSE -(Abs(n) \div Abs(d))

\* The <<a, b, c>> of the model's inputs for which the double-precision
\* product (float(a) / b) * c comes out just below the whole number
\* a * c / b, so that int() gives one less: 720.0 / 1056 * 594 is
\* 404.99999999999994 where 720 * 594 / 1056 = 405, and 61.0 / 7 * 7 is
\* 60.99999999999999.
FloatShort == { <<720, 1056, 594>>, <<61, 7, 7>> }

\* int((float(a) / b) * c), lines 413, 416, 420, 423 (b # 0).
ScaleInt(a, b, c) ==
    LET q == (a * Abs(c)) \div Abs(b)
        m == IF <<a, Abs(b), Abs(c)>> \in FloatShort THEN q - 1 ELSE q
    IN  IF (b > 0) = (c >= 0) THEN m ELSE -m

\* Lines 445-448: an odd value is incremented.
\* Mutant: the value is written as it is.
EvenUp_Skipped(n) == n

EvenUp(n) == IF n % 2 # 0 THEN n + 1 ELSE n

\* Lines 398-406: the cropped size, the width corrected by the pixel
\* aspect ratio.  crop is <<top, right, bottom, left>>.
CroppedWidth(g) == TruncDiv((g.video_w - g.crop[2] - g.crop[4]) * g.par[1], g.par[2])
CroppedHeight(g) == g.video_h - g.crop[1] - g.crop[3]

\* Lines 408-416: the width is brought into <<wmin, wmax>> and the height
\* follows in proportion.
WidthStep(g) ==
    LET owidth == CroppedWidth(g)
        oheight == CroppedHeight(g)
        to(w) == IF owidth = 0 THEN [result |-> "ZeroDivisionError", width |-> w, height |-> 0]
                 ELSE [result |-> "ok", width |-> w, height |-> ScaleInt(w, owidth, oheight)]
    IN  IF owidth < g.width[1] THEN to(g.width[1])
        ELSE IF owidth > g.width[2] THEN to(g.width[2])
        ELSE [result |-> "ok", width |-> owidth, height |-> oheight]

\* Lines 418-423: the height is checked again and the width follows.
\* Mutant: the second check is left out.
HeightStep_Skipped(g, s) == s

HeightStep(g, s) ==
    LET owidth == CroppedWidth(g)
        oheight == CroppedHeight(g)
        to(h) == IF oheight = 0 THEN [result |-> "ZeroDivisionError", width |-> 0, height |-> h]
                 ELSE [result |-> "ok", width |-> ScaleInt(h, oheight, owidth), height |-> h]
    IN  IF s.result # "ok" THEN s
        ELSE IF s.height < g.height[1] THEN to(g.height[1])
        ELSE IF s.height > g.height[2] THEN to(g.height[2])
        ELSE s

\* "%i" % (-px) with px = (vmin - v) / 2, lines 431-442: the quotient is a
\* float and %i drops its fraction.
BoxPixels(vmin, v) == TruncDiv(v - vmin, 2)

\* Lines 429-442: the videobox element for the size s before it is made
\* even; branch "" stands for no videobox.
\* Mutant: the width is never padded.
Padding_NoWidth(g, s) == [branch |-> "", left |-> 0, top |-> 0]

Padding(g, s) ==
    IF s.width < g.width[1] /\ s.height < g.height[1]
    THEN [branch |-> "left right top bottom",
          left |-> BoxPixels(g.width[1], s.width), top |-> BoxPixels(g.height[1], s.height)]
    ELSE IF s.width < g.width[1]
    THEN [branch |-> "left right", left |-> BoxPixels(g.width[1], s.width), top |-> 0]
    ELSE IF s.height < g.height[1]
    THEN [branch |-> "top bottom", left |-> 0, top |-> BoxPixels(g.height[1], s.height)]
    ELSE [branch |-> "", left |-> 0, top |-> 0]

\* Lines 394-451: what self.vcaps.set_value writes for 'width' and 'height',
\* with the size before it is made even (planned) and the videobox.
Geometry(g) ==
    LET s == HeightStep(g, WidthStep(g))
    IN  IF s.result # "ok" THEN s
        ELSE [result |-> "ok", width |-> EvenUp(s.width), height |-> EvenUp(s.height),
              planned |-> <<s.width, s.height>>, vbox |-> Padding(g, s)]

\* The sources, crops, pixel aspect ratios and bounds the geometry is run on.
GeoSizes ==
    ((1..MaxSide) \X (1..MaxSide)) \cup {<<1920, 800>>, <<1920, 100>>, <<1056, 594>>, <<7, 7>>}
GeoCrops == {<<0, 0, 0, 0>>, <<0, 1, 0, 1>>, <<1, 0, 1, 0>>}
GeoPars == {<<1, 1>>, <<4, 3>>, <<1, 2>>}
GeoWidthBounds == {<<2, 4>>, <<5, 3>>, <<320, 1280>>, <<320, 720>>, <<61, 100>>}
GeoHeightBounds == {<<2, 3>>, <<240, 720>>, <<61, 100>>}
GeoInputs ==
    { [video_w |-> s[1], video_h |-> s[2], crop |-> c, par |-> p, width |-> w, height |-> h] :
        s \in GeoSizes, c \in GeoCrops, p \in GeoPars,
        w \in GeoWidthBounds, h \in GeoHeightBounds }

\* No job: the transcoder's own state while only a helper is run.
NoJob ==
    /\ info = None /\ preset = None /\ installed = {} /\ enc_pass = 0
    /\ pipe = None /\ pstate = "NULL" /\ bus = <<>> /\ engine = "ready"
    /\ pos = 0 /\ now = 0 /\ start_time = NoTime
    /\ percent_cached = 0 /\ percent_cached_time = 0
    /\ npipes = 0 /\ emitted = <<>>

jobvars == <<info, preset, installed, enc_pass, pipe, pstate, bus, engine, pos,
             now, start_time, percent_cached, percent_cached_time, npipes, emitted>>

GeoInit ==
    /\ NoJob
    /\ cap = None /\ pstr = None /\ mux = None /\ jobs = None /\ dvd = None
    /\ geo \in { [in |-> g, out |-> None] : g \in GeoInputs }

\* _setup_pass reaches line 451 (or leaves with ZeroDivisionError).
PlanGeometry ==
    /\ geo.out = None
    /\ geo' = [geo EXCEPT !.out = Geometry(geo.in)]
    /\ UNCHANGED <<jobvars, cap, pstr, mux, jobs, dvd>>

GeoNext == PlanGeometry

GeoSpec == GeoInit /\ [][GeoNext]_vars

\* The geometry has been written to the caps.
GeoDone == geo # None /\ geo.out # None /\ geo.out.result = "ok"
GeoBoundsOrdered == geo.in.width[1] <= geo.in.width[2] /\ geo.in.height[1] <= geo.in.height[2]

\* C15: the width and the height written to the video caps are even.
C15_OutputIsEven ==
    GeoDone => (geo.out.width % 2 = 0 /\ geo.out.height % 2 = 0)

\* C15 witness: a source whose width and height are both odd after the
\* scaling steps has been planned.
C15_Witness ==
    /\ GeoDone
    /\ LET s == HeightStep(geo.in, WidthStep(geo.in))
       IN  s.width % 2 = 1 /\ s.height % 2 = 1

\* C16 (as claimed): for ordered bounds the output width lies in
\* [wmin - 1, wmax + 1] and the output height in [hmin - 1, hmax + 1].
C16_OutputWithinBounds ==
    (GeoDone /\ GeoBoundsOrdered) =>
        /\ geo.out.width \in (geo.in.width[1] - 1)..(geo.in.width[2] + 1)
        /\ geo.out.height \in (geo.in.height[1] - 1)..(geo.in.height[2] + 1)

\* C16 (amended): for ordered bounds the output height lies in
\* [hmin - 1, hmax + 1], and the output width lies in [wmin - 1, wmax + 1]
\* when the height after the width scaling step is within [hmin, hmax],
\* so that the height re-check leaves the width alone.
C16_HeightWithinBounds ==
    (GeoDone /\ GeoBoundsOrdered) =>
        /\ geo.out.height \in (geo.in.height[1] - 1)..(geo.in.height[2] + 1)
        /\ WidthStep(geo.in).height \in geo.in.height[1]..geo.in.height[2]
              => geo.out.width \in (geo.in.width[1] - 1)..(geo.in.width[2] + 1)

\* C16 witness: the height re-check has raised the height of a wide source
\* to hmin and the width has left its bound.
C16_Witness ==
    /\ GeoDone /\ GeoBoundsOrdered
    /\ WidthStep(geo.in).height < geo.in.height[1]
    /\ geo.out.height = geo.in.height[1]
    /\ geo.out.width > geo.in.width[2] + 1

\* C17 (as claimed): when the cropped, aspect-corrected width w exceeds
\* wmax and floor(wmax * h / w) lies in [hmin, hmax], the output width is
\* wmax and the output height is floor(wmax * h / w), each made even by
\* incrementing; 1920x800 under (320, 1280), (240, 720) gives 1280x534.
C17_DownscaleToMaxWidth ==
    (GeoDone /\ GeoBoundsOrdered /\ CroppedHeight(geo.in) > 0
       /\ CroppedWidth(geo.in) > geo.in.width[2]
       /\ (geo.in.width[2] * CroppedHeight(geo.in)) \div CroppedWidth(geo.in)
             \in geo.in.height[1]..geo.in.height[2])
      => LET scaled == (geo.in.width[2] * CroppedHeight(geo.in)) \div CroppedWidth(geo.in)
         IN  /\ geo.out.width = geo.in.width[2] + (geo.in.width[2] % 2)
             /\ geo.out.height = scaled + (scaled % 2)

\* ======================================================================
\* Capability bounds: utils.py expand_capacity and merge_range_and_tuple,
\* and the limits _setup_pass takes from the encoder's sink caps.
\* A bound is a Python range (start, stop; the values start .. stop - 1) or
\* a tuple of values; both are records of one shape.
\* ======================================================================
MaxVal == 3         \* capability values: 0..MaxVal
MaxTuple == 2       \* values in a tuple: 1..MaxTuple

Rng(a, b) == [kind |-> "range", start |-> a, stop |-> b, vals |-> <<>>]
Tup(s) == [kind |-> "tuple", start |-> 0, stop |-> 0, vals |-> s]

Min2(a, b) == IF a <= b THEN a ELSE b

\* frozenset(x), set(x): the values a bound contains.
Coverage(x) ==
    IF x.kind = "range" THEN x.start..(x.stop - 1)
    ELSE {x.vals[i] : i \in 1..Len(x.vals)}

\* tuple(r) of a range.
RangeSeq(r) == [i \in 1..Max2(r.stop - r.start, 0) |-> r.start + i - 1]

\* sorted(s): ascending, repeated values kept.
RECURSIVE Sorted(_)
Sorted(s) ==
    IF s = <<>> THEN <<>>
    ELSE LET rest == Sorted(Tail(s))
             k == Cardinality({i \in 1..Len(rest) : rest[i] <= Head(s)})
         IN  SubSeq(rest, 1, k) \o <<Head(s)>> \o SubSeq(rest, k + 1, Len(rest))

\* sorted(S) of a set.
SortedSet(S) ==
    [i \in 1..Cardinality(S) |-> CHOOSE x \in S : Cardinality({y \in S : y < x}) = i - 1]

\* utils.py lines 211-239.
merge_range_and_tuple(r, t) ==
    LET new_set == Coverage(t)
        expand_right == Rng(r.start, r.stop + 1)
        expand_left == Rng(r.start - 1, r.stop)
        expand_both == Rng(r.start - 1, r.stop + 1)
    IN  IF new_set \subseteq Coverage(r) THEN r
        ELSE IF new_set \subseteq Coverage(expand_right) THEN expand_right
        ELSE IF new_set \subseteq Coverage(expand_left) THEN expand_left
        ELSE IF new_set \subseteq Coverage(expand_both) THEN expand_both
        ELSE Tup(Sorted(RangeSeq(r) \o t.vals))

\* utils.py lines 242-268.
\* Mutant: two ranges are merged into the first one's start and the larger
\* stop.
expand_capacity_KeepsStart(current, new) ==
    IF current.kind = "range" /\ new.kind = "range"
    THEN Rng(current.start, Max2(current.stop, new.stop))
    ELSE IF current.kind = "range" THEN merge_range_and_tuple(current, new)
    ELSE IF new.kind = "range" THEN merge_range_and_tuple(new, current)
    ELSE Tup(SortedSet(Coverage(current) \cup Coverage(new)))

expand_capacity(current, new) ==
    IF current.kind = "range" /\ new.kind = "range"
    THEN IF current.stop >= new.start \/ new.stop >= current.start
         THEN Rng(Min2(current.start, new.start), Max2(current.stop, new.stop))
         ELSE Tup(Sorted(RangeSeq(current) \o RangeSeq(new)))
    ELSE IF current.kind = "range" /\ new.kind = "tuple"
    THEN merge_range_and_tuple(current, new)
    ELSE IF current.kind = "tuple" /\ new.kind = "range"
    THEN merge_range_and_tuple(new, current)
    ELSE Tup(SortedSet(Coverage(current) \cup Coverage(new)))

\* transcoder.py lines 370-382: a (min, max) pair of the video codec is
\* brought inside the range the encoder's sink caps give for the field.
VideoLimits(cur, range_data) ==
    LET vmin == range_data.start
        vmax == range_data.stop - 1
        c1 == IF cur[1] < vmin THEN <<vmin, cur[2]>> ELSE cur
    IN  IF c1[2] > vmax THEN <<c1[1], vmax>> ELSE c1

\* `if new:` of lines 538 and 545: None, an empty range and an empty tuple
\* are skipped.
Truthy(new) == new # None /\ Coverage(new) # {}

\* transcoder.py lines 529-547 for one field ('rate' or 'channels'):
\* reported[i] is what get_range_value, or else the list reader named
\* get_array_value, finds in caps structure i (None: nothing).  The
\* capable bound starts as range(0, 0) and is stored on the preset each
\* time a structure adds to it.
RECURSIVE AudioLimits(_, _, _)
AudioLimits(stored, capable, reported) ==
    IF reported = <<>> THEN stored
    ELSE IF Truthy(Head(reported))
    THEN LET c == expand_capacity(capable, Head(reported))
         IN  AudioLimits(c, c, Tail(reported))
    ELSE AudioLimits(stored, capable, Tail(reported))

\* ------------------------------------------------------------ the inputs
Ranges == { Rng(p[1], p[2]) :
              p \in { q \in (0..(MaxVal + 1)) \X (0..(MaxVal + 1)) : q[1] <= q[2] } }
Tuples == { Tup(s) : s \in UNION { [1..n -> 0..MaxVal] : n \in 1..MaxTuple } }
Bounds == Ranges \cup Tuples
EncoderRanges == { r \in Ranges : r.start < r.stop }
Pairs == { p \in (0..MaxVal) \X (0..MaxVal) : p[1] <= p[2] }
Reported == {None} \cup { b \in Bounds : Coverage(b) # {} }
AudioDeclared == { Rng(1, 3), Tup(<<0, 2>>) }

CapInit ==
    /\ NoJob
    /\ geo = None /\ pstr = None /\ mux = None /\ jobs = None /\ dvd = None
    /\ \/ cap \in { [op |-> "expand", current |-> a, new |-> b, out |-> None] :
                      a \in Bounds, b \in Bounds }
       \/ cap \in { [op |-> "video", declared |-> p, reported |-> r, out |-> None] :
                      p \in Pairs, r \in EncoderRanges }
       \/ cap \in { [op |-> "audio", declared |-> d, reported |-> s, out |-> None] :
                      d \in AudioDeclared,
                      s \in (Reported \X Reported) \cup { <<r>> : r \in Reported } }

ExpandCapacity ==
    /\ cap.op = "expand" /\ cap.out = None
    /\ cap' = [cap EXCEPT !.out = expand_capacity(cap.current, cap.new)]
    /\ UNCHANGED <<jobvars, geo, pstr, mux, jobs, dvd>>

ResolveVideoLimits ==
    /\ cap.op = "video" /\ cap.out = None
    /\ cap' = [cap EXCEPT !.out = VideoLimits(cap.declared, cap.reported)]
    /\ UNCHANGED <<jobvars, geo, pstr, mux, jobs, dvd>>

ResolveAudioLimits ==
    /\ cap.op = "audio" /\ cap.out = None
    /\ cap' = [cap EXCEPT !.out = AudioLimits(cap.declared, Rng(0, 0), cap.reported)]
    /\ UNCHANGED <<jobvars, geo, pstr, mux, jobs, dvd>>

CapNext ==
    \/ ExpandCapacity
    \/ ResolveVideoLimits
    \/ ResolveAudioLimits

CapSpec == CapInit /\ [][CapNext]_vars

CapDone(op) == cap # None /\ cap.op = op /\ cap.out # None

\* C18: expand_capacity(a, b) contains every value of a and every value of
\* b, and contains the same values as expand_capacity(b, a).
C18_ExpandCoversBoth ==
    CapDone("expand") =>
        /\ Coverage(cap.current) \cup Coverage(cap.new) \subseteq Coverage(cap.out)
        /\ Coverage(cap.out) = Coverage(expand_capacity(cap.new, cap.current))

\* C18 witness: a tuple and a range of which neither contains the other
\* have been merged, into a tuple.
C18_Witness ==
    /\ CapDone("expand")
    /\ cap.current.kind = "tuple" /\ cap.new.kind = "range"
    /\ ~(Coverage(cap.current) \subseteq Coverage(cap.new))
    /\ ~(Coverage(cap.new) \subseteq Coverage(cap.current))
    /\ cap.out.kind = "tuple"

\* C19 (as claimed): the bound stored on the preset after the resolution
\* contains every value of the declared bound and every value the encoder
\* reports, for the video fields (a (min, max) pair) and the audio fields.
C19_ResolutionOnlyWidens ==
    /\ CapDone("video") =>
          (cap.declared[1]..cap.declared[2]) \cup Coverage(cap.reported)
              \subseteq cap.out[1]..cap.out[2]
    /\ CapDone("audio") =>
          /\ Coverage(cap.declared) \subseteq Coverage(cap.out)
          /\ \A i \in 1..Len(cap.reported) :
                cap.reported[i] # None => Coverage(cap.reported[i]) \subseteq Coverage(cap.out)

\* Both ranges have values.
BothRangesNonEmpty ==
    /\ cap.current.kind = "range" /\ cap.new.kind = "range"
    /\ cap.current.start < cap.current.stop /\ cap.new.start < cap.new.stop

\* C20 (as claimed): two ranges that overlap or are adjacent merge into the
\* range from the smaller start to the larger stop, two ranges that are
\* disjoint and not adjacent into the ascending tuple of their values; the
\* result contains no value that neither range contains.
C20_RangeMerge ==
    (CapDone("expand") /\ BothRangesNonEmpty) =>
        /\ IF cap.current.start <= cap.new.stop /\ cap.new.start <= cap.current.stop
           THEN cap.out = Rng(Min2(cap.current.start, cap.new.start),
                              Max2(cap.current.stop, cap.new.stop))
           ELSE cap.out = Tup(SortedSet(Coverage(cap.current) \cup Coverage(cap.new)))
        /\ Coverage(cap.out) \subseteq Coverage(cap.current) \cup Coverage(cap.new)

\* C21 (as claimed): merge_range_and_tuple(r, t) is r when r contains every
\* value of t; else r extended by one at the upper end, at the lower end or
\* at both ends, the first of these that contains every value of t; else
\* the ascending tuple of the values of r and t, no value repeated.
\* Stated for a range that has values and a tuple without repeated values.
C21_MergeRangeAndTuple ==
    (/\ CapDone("expand") /\ cap.current.kind = "range" /\ cap.new.kind = "tuple"
     /\ cap.current.start < cap.current.stop
     /\ Cardinality(Coverage(cap.new)) = Len(cap.new.vals)) =>
        LET r == cap.current
            t == Coverage(cap.new)
            right == Rng(r.start, r.stop + 1)
            left == Rng(r.start - 1, r.stop)
            both == Rng(r.start - 1, r.stop + 1)
        IN  cap.out = IF t \subseteq Coverage(r) THEN r
                      ELSE IF t \subseteq Coverage(right) THEN right
                      ELSE IF t \subseteq Coverage(left) THEN left
                      ELSE IF t \subseteq Coverage(both) THEN both
                      ELSE Tup(SortedSet(Coverage(r) \cup t))

\* ======================================================================
\* Pass strings as text: presets.py parse_pass and make_pass_from_dict on
\* strings of characters (a string is a sequence of one-character strings).
\* ======================================================================
MaxStr == 7         \* characters in a pass string: 0..MaxStr

PassChars == {"a", "b", "=", " "}

\* pas.split(): the words between runs of whitespace (line 655).
RECURSIVE SplitWords(_, _, _)
SplitWords(s, cur, acc) ==
    IF s = <<>> THEN (IF cur = <<>> THEN acc ELSE Append(acc, cur))
    ELSE IF Head(s) = " "
    THEN SplitWords(Tail(s), <<>>, IF cur = <<>> THEN acc ELSE Append(acc, cur))
    ELSE SplitWords(Tail(s), Append(cur, Head(s)), acc)

HasEq(p) == \E i \in 1..Len(p) : p[i] = "="

\* k, v = p.split('=', 1) (line 658), for a word that has an '='.
KeyValue(p) ==
    LET e == CHOOSE i \in 1..Len(p) : p[i] = "=" /\ \A j \in 1..(i - 1) : p[j] # "="
    IN  <<SubSeq(p, 1, e - 1), SubSeq(p, e + 1, Len(p))>>

\* ' '.join(out) (line 667).
RECURSIVE JoinWords(_)
JoinWords(ws) ==
    IF ws = <<>> THEN <<>>
    ELSE IF Len(ws) = 1 THEN ws[1]
    ELSE ws[1] \o <<" ">> \o JoinWords(Tail(ws))

\* make_pass_from_dict (lines 663-667) as text: '{}={}'.format(k, v) for
\* every item, joined by one space.
\* Mutant: the value is written before the key.
MakePassText_Swapped(d) ==
    JoinWords([i \in 1..Len(d) |-> d[i][2] \o <<"=">> \o d[i][1]])

MakePassText(d) ==
    JoinWords([i \in 1..Len(make_pass_from_dict(d)) |->
                  make_pass_from_dict(d)[i][1] \o <<"=">> \o make_pass_from_dict(d)[i][2]])

\* make_pass_from_dict(parse_pass(s)) on text: a word without '=' ends
\* parse_pass in ValueError (the unpacking of line 658).
PassRoundTripResult(s) ==
    LET ws == SplitWords(s, <<>>, <<>>)
    IN  IF \E i \in 1..Len(ws) : ~HasEq(ws[i])
        THEN [result |-> "ValueError", text |-> <<>>]
        ELSE [result |-> "ok",
              text |-> MakePassText(parse_pass([i \in 1..Len(ws) |-> KeyValue(ws[i])]))]

PassTexts == UNION { [1..n -> PassChars] : n \in 0..MaxStr }

PassInit ==
    /\ NoJob
    /\ geo = None /\ cap = None /\ mux = None /\ jobs = None /\ dvd = None
    /\ pstr \in { [in |-> s, out |-> None] : s \in PassTexts }

PassRoundTrip ==
    /\ pstr.out = None
    /\ pstr' = [pstr EXCEPT !.out = PassRoundTripResult(pstr.in)]
    /\ UNCHANGED <<jobvars, geo, cap, mux, jobs, dvd>>

PassNext == PassRoundTrip

PassSpec == PassInit /\ [][PassNext]_vars

\* Key=value tokens with unique keys, one space between two tokens and
\* none before the first or after the last.
WellFormedPass(s) ==
    LET ws == SplitWords(s, <<>>, <<>>)
        spaces == Cardinality({i \in 1..Len(s) : s[i] = " "})
    IN  /\ \A i \in 1..Len(ws) : HasEq(ws[i])
        /\ spaces = (IF ws = <<>> THEN 0 ELSE Len(ws) - 1)
        /\ \A i, j \in 1..Len(ws) : i # j => KeyValue(ws[i])[1] # KeyValue(ws[j])[1]

\* C22: make_pass_from_dict(parse_pass(s)) = s for every well-formed s.
C22_PassRoundTrip ==
    (pstr # None /\ pstr.out # None /\ WellFormedPass(pstr.in)) =>
        (pstr.out.result = "ok" /\ pstr.out.text = pstr.in)

\* C22 witness: a string of two tokens, each with a key and a value, has
\* made the round trip.
C22_Witness ==
    /\ pstr # None /\ pstr.out # None /\ WellFormedPass(pstr.in)
    /\ LET ws == SplitWords(pstr.in, <<>>, <<>>)
       IN  /\ Len(ws) = 2
           /\ \A i \in 1..2 : KeyValue(ws[i])[1] # <<>> /\ KeyValue(ws[i])[2] # <<>>


\* ----------------------------------------------------------------------
\* The AAC fallback of _setup_pass (transcoder.py lines 514-524).
HasKey(pas, key) == \E i \in 1..Len(pas) : pas[i][1] = key

\* The tokens of pass string new that pass string old already had.
KeptTokens(new, old) ==
    LET in_old(tok) == \E i \in 1..Len(old) : old[i] = tok
    IN  SelectSeq(new, in_old)

WithoutKey(pas, key) ==
    LET other(tok) == tok[1] # key
    IN  SelectSeq(pas, other)

ContainerOr_Primary(c, d) == d

ContainerOr(c, d) == IF c # "" THEN c ELSE d

\* The containers whose pads are requested by name (lines 498, 569).
PadContainers == {"qtmux", "webmmux", "avmux_dvd", "matroskamux", "mp4mux"}

\* Lines 331-358 for an input m, with the links of the branches built:
\* the video branch for an input with video (line 360), the audio branch
\* for an input with audio in the pass that carries audio (lines 509-510).
\* The AAC fallback (line 521) writes the audio codec's container after
\* the container of the pass has been chosen.
ChooseMux(m) ==
    LET container == IF m.video /\ m.audio THEN m.container
                     ELSE IF m.video THEN ContainerOr(m.vcontainer, m.container)
                     ELSE IF m.audio THEN ContainerOr(m.acontainer, m.container)
                     ELSE ""
        mux_str == IF container # "" THEN <<container, "name=mux">> ELSE <<>>
        premux  == IF mux_str # <<>> THEN "mux." ELSE "sink."
        pad(p)  == IF container \in PadContainers /\ premux = "mux." THEN premux \o p
                   ELSE premux
        hasA    == m.audio /\ m.audio_pass
    IN  [container  |-> container,
         mux_stage  |-> mux_str # <<>>,
         vmux       |-> IF m.video THEN pad("video_%u") ELSE "",
         amux       |-> IF hasA THEN pad("audio_%u") ELSE "",
         acontainer |-> IF hasA /\ m.faac_missing THEN "mp4mux" ELSE m.acontainer]

MuxInputs ==
    { m \in [video : BOOLEAN, audio : BOOLEAN, audio_pass : BOOLEAN,
             faac_missing : BOOLEAN,
             container : {"", "mp4mux", "oggmux"},
             vcontainer : {"", "matroskamux"},
             acontainer : {"", "oggmux"}] : m.video \/ m.audio }

MuxInit ==
    /\ NoJob
    /\ geo = None /\ cap = None /\ pstr = None /\ jobs = None /\ dvd = None
    /\ mux \in { [in |-> m, out |-> None] : m \in MuxInputs }

SetupMux ==
    /\ mux.out = None
    /\ mux' = [mux EXCEPT !.out = ChooseMux(mux.in)]
    /\ UNCHANGED <<jobvars, geo, cap, pstr, jobs, dvd>>

MuxNext == SetupMux

MuxSpec == MuxInit /\ [][MuxNext]_vars

MuxDone == mux # None /\ mux.out # None

\* C24: the pass uses the preset's container for an input with video and
\* audio; for an input with one kind of stream it uses that codec's
\* container as the preset gives it, or the preset's container when the
\* codec's is empty.  The pipeline has a muxer exactly when that container
\* is not empty: with a muxer every branch links to the muxer, without one
\* every branch links to the sink.
C24_ContainerResolution ==
    MuxDone =>
        LET m == mux.in
            o == mux.out
            links == {l \in {o.vmux, o.amux} : l # ""}
        IN  /\ (m.video /\ m.audio) => o.container = m.container
            /\ (m.video /\ ~m.audio) =>
                   /\ m.vcontainer # "" => o.container = m.vcontainer
                   /\ m.vcontainer = "" => o.container = m.container
            /\ (m.audio /\ ~m.video) =>
                   /\ m.acontainer # "" => o.container = m.acontainer
                   /\ m.acontainer = "" => o.container = m.container
            /\ o.mux_stage <=> o.container # ""
            /\ o.mux_stage => \A l \in links : SubSeq(l, 1, 4) = "mux."
            /\ ~o.mux_stage => \A l \in links : l = "sink."

\* C24 witness: an input with audio only, no container in the audio codec
\* or in the preset: the audio branch is linked to the sink.
C24_Witness ==
    /\ MuxDone
    /\ mux.in.audio /\ ~mux.in.video /\ mux.in.audio_pass
    /\ mux.in.acontainer = "" /\ mux.in.container = ""
    /\ ~mux.out.mux_stage /\ mux.out.amux = "sink."


\* ======================================================================
\* Two jobs constructed with one preset object.  Each _setup_pass reads
\* the preset's fields and stores what it resolves on the same object
\* (setattr of lines 377 and 381, assignments of lines 519-523, 540, 547).
\* Both jobs run in one process: they find the same encoders.
\* ======================================================================
JobIds == {1, 2}

\* What one _setup_pass leaves on the preset p for an input inf: the video
\* limits for an input with video (lines 360-382), the AAC fallback and
\* the audio limits for an input with audio (lines 509-547).
ResolvePreset(p, inf, env) ==
    LET p1 == IF is_video(inf)
              THEN [p EXCEPT !.vcodec.width = VideoLimits(@, env.vrange)]
              ELSE p
        p2 == IF is_audio(inf) /\ p1.acodec.name = "faac" /\ env.faac_missing
              THEN [p1 EXCEPT !.acodec = AacFallback(@)]
              ELSE p1
    IN  IF is_audio(inf)
        THEN [p2 EXCEPT !.acodec.rate = AudioLimits(@, Rng(0, 0), env.arates)]
        ELSE p2

SharedPresets ==
    { [vcodec |-> [width |-> w],
       acodec |-> [name |-> an, container |-> "", passes |-> <<APass>>,
                   rate |-> Rng(1, 3)]]
      : w \in { <<0, 3>>, <<1, 2>> }, an \in {"faac", "lamemp3enc"} }

SharedEnvs ==
    [vrange : { Rng(1, 3), Rng(0, 4) },
     arates : { << Rng(1, 3) >>, << Tup(<<1, 2>>) >> },
     faac_missing : BOOLEAN]

SharedInfos == { i \in [video : BOOLEAN, audio : BOOLEAN] : i.video \/ i.audio }

SharedInit ==
    /\ NoJob
    /\ geo = None /\ cap = None /\ pstr = None /\ mux = None /\ dvd = None
    /\ jobs \in { [catalog |-> p, preset |-> p, env |-> e, info |-> inf,
                   seen |-> [j \in JobIds |-> None]]
                  : p \in SharedPresets, e \in SharedEnvs,
                    inf \in [JobIds -> SharedInfos] }

\* Job j's _setup_pass: seen[j] is the preset as the call finds it.
JobSetupPass(j) ==
    /\ jobs.seen[j] = None
    /\ jobs' = [jobs EXCEPT !.seen[j] = jobs.preset,
                            !.preset = ResolvePreset(jobs.preset, jobs.info[j], jobs.env)]
    /\ UNCHANGED <<jobvars, geo, cap, pstr, mux, dvd>>

SharedNext == \E j \in JobIds : JobSetupPass(j)

SharedSpec == SharedInit /\ [][SharedNext]_vars

\* C25 (as claimed): a job's pass setup finds the preset as the caller
\* gave it, whatever the other job given the same preset has done before:
\* no job reads a field the other job has written.
C25_NoSharedState ==
    jobs # None => \A j \in JobIds : jobs.seen[j] # None => jobs.seen[j] = jobs.catalog


\* ======================================================================
\* The search for the longest DVD title: transcoder.py lines 196-248.
\* dvd.title is the title index in options.uri, dvd.infos is
\* self.dvd_infos, dvd.pending tells whether a discovery is under way,
\* dvd.emitted are the signals emitted, in order.
\* ======================================================================
MaxTitle == 10      \* title indices probed in the model: 0..MaxTitle
GiveUpTitle == 8    \* `if title >= 8` (line 208)

\* What a discovery reports for a title: its length and whether it has a
\* video or an audio stream.  A title without length has no stream.
DvdInfos ==
    { [length |-> 0, usable |-> FALSE], [length |-> 1, usable |-> TRUE],
      [length |-> 2, usable |-> FALSE] }

\* Lines 211-217: the first of the infos no later one is longer than,
\* None when no info has a length above 0.
RECURSIVE Longest(_, _, _)
Longest(infos, best, longest) ==
    IF infos = <<>> THEN best
    ELSE IF Head(infos).length > longest
    THEN Longest(Tail(infos), Head(infos), Head(infos).length)
    ELSE Longest(Tail(infos), best, longest)

DvdInit ==
    /\ NoJob
    /\ geo = None /\ cap = None /\ pstr = None /\ mux = None /\ jobs = None
    /\ dvd = [title |-> 0, infos |-> <<>>, pending |-> TRUE, emitted |-> <<>>]

\* The callback _got_info (lines 203-244) for the info of title dvd.title.
\* setup_ok: whether _setup_pass ends without PipelineException.
_got_info ==
    \E inf \in DvdInfos, setup_ok \in BOOLEAN :
      /\ dvd.pending
      /\ dvd.title <= MaxTitle
      /\ LET infos == Append(dvd.infos, inf)
             best  == Longest(infos, None, 0)
             next  == [title |-> dvd.title + 1, infos |-> infos, pending |-> TRUE,
                       emitted |-> dvd.emitted]
             disc  == Append(dvd.emitted, [sig |-> "discovered", info |-> best])
         IN  IF dvd.title >= GiveUpTitle
             THEN IF best = None
                  THEN dvd' = [dvd EXCEPT !.infos = infos, !.pending = FALSE,
                                  !.emitted = Append(@, [sig |-> "error", info |-> None])]
                  ELSE IF best.usable
                  THEN dvd' = [dvd EXCEPT !.infos = infos, !.pending = FALSE,
                                  !.emitted = IF setup_ok THEN disc
                                              ELSE Append(disc, [sig |-> "setup-error",
                                                                 info |-> None])]
                  ELSE dvd' = [next EXCEPT !.emitted = disc]
             ELSE dvd' = next
      /\ UNCHANGED <<jobvars, geo, cap, pstr, mux, jobs>>

DvdNext == _got_info

DvdSpec == DvdInit /\ [][DvdNext]_vars

DvdCount(sig) ==
    Cardinality({i \in 1..Len(dvd.emitted) : dvd.emitted[i].sig = sig})

\* C26 (as claimed): the search probes the titles 0 to 8 and no other;
\* `discovered` is emitted at most once, and once the search has stopped
\* either `discovered` has been emitted exactly once, for the longest
\* title, or the error `No valid DVD title found!` has been emitted and
\* `discovered` has not.  The longest title need not have a stream.
C26_DvdProbingStops ==
    dvd # None =>
        /\ dvd.title <= GiveUpTitle
        /\ DvdCount("discovered") <= 1
        /\ ~dvd.pending =>
              \/ /\ DvdCount("discovered") = 1 /\ DvdCount("error") = 0
                 /\ \A i \in 1..Len(dvd.emitted) :
                       dvd.emitted[i].sig = "discovered" =>
                           \A j \in 1..Len(dvd.infos) :
                               dvd.infos[j].length <= dvd.emitted[i].info.length
              \/ DvdCount("discovered") = 0 /\ DvdCount("error") = 1


\* C27 (as claimed): in every pass the job reaches, the pass strings that
\* _setup_pass looks up exist: setting up pass enc_pass for the discovered
\* input does not end in IndexError, whether the video codec or the audio
\* codec has the longer list of passes.
C27_PassLookupsInRange ==
    (info # None /\ (is_video(info) \/ is_audio(info))) =>
        \A parse_ok \in BOOLEAN :
            _setup_pass(enc_pass, info, preset, parse_ok).result # "IndexError"


\* C28 (as claimed): every pipeline built has a video branch or an audio
\* branch, in every pass: also for an input with audio only under a
\* preset whose video codec lists more than one pass.
C28_PipelineHasBranch ==
    pipe # None => (pipe.video \/ pipe.audio)

GeoSourcePositive == CroppedWidth(geo.in) > 0 /\ CroppedHeight(geo.in) > 0

\* C30 (as claimed): for a positive source size and hmin <= hmax the height
\* before it is made even lies in hmin..hmax, so no videobox has top and
\* bottom; the width is below wmin only when the height check of lines
\* 421-423 has scaled down to hmax, and exactly then the videobox pads
\* floor((wmin - width) / 2) pixels on the left and on the right.
C30_OnlyWidthIsPadded ==
    (GeoDone /\ GeoSourcePositive /\ geo.in.height[1] <= geo.in.height[2]) =>
        LET o == geo.out
            wmin == geo.in.width[1]
        IN  /\ geo.in.height[1] <= o.planned[2] /\ o.planned[2] <= geo.in.height[2]
            /\ o.vbox.branch \in {"", "left right"}
            /\ o.vbox.top = 0
            /\ o.planned[1] < wmin => WidthStep(geo.in).height > geo.in.height[2]
            /\ IF o.planned[1] < wmin
               THEN /\ o.vbox.branch = "left right"
                    /\ -o.vbox.left = (wmin - o.planned[1]) \div 2
               ELSE o.vbox.branch = ""


\* C30 (amended): for a positive source size, wmin <= wmax and hmin <= hmax
\* the height before it is made even lies in hmin..hmax and no videobox has
\* top and bottom; the width is below wmin only when the height check of
\* lines 418-423 has computed it anew, and exactly then the videobox pads
\* floor((wmin - width) / 2) pixels on the left and on the right.
C30_WidthPaddedAfterHeightCheck ==
    (GeoDone /\ GeoSourcePositive /\ GeoBoundsOrdered) =>
        LET o == geo.out
            wmin == geo.in.width[1]
            h1 == WidthStep(geo.in).height
        IN  /\ geo.in.height[1] <= o.planned[2] /\ o.planned[2] <= geo.in.height[2]
            /\ o.vbox.branch \in {"", "left right"}
            /\ o.vbox.top = 0
            /\ o.planned[1] < wmin => (h1 < geo.in.height[1] \/ h1 > geo.in.height[2])
            /\ IF o.planned[1] < wmin
               THEN /\ o.vbox.branch = "left right"
                    /\ -o.vbox.left = (wmin - o.planned[1]) \div 2
               ELSE o.vbox.branch = ""

\* C30 witness: a wide source is scaled down to hmax, its width falls
\* below wmin and the videobox pads left and right.
C30_Witness ==
    /\ GeoDone /\ GeoSourcePositive /\ GeoBoundsOrdered
    /\ WidthStep(geo.in).height > geo.in.height[2]
    /\ geo.out.planned[1] < geo.in.width[1]
    /\ geo.out.vbox.branch = "left right"
    /\ geo.out.vbox.left < 0

====
